---- MODULE Spec2Model ----
(***************************************************************************)
(* ESP32 traffic light controller for 4 lanes (src/esp32sketch.ino).       *)
(*                                                                         *)
(* The sketch is modelled as one sequential process (setup(), then loop()  *)
(* for ever) whose position is pc.  Every digitalWrite and every           *)
(* assignment to currentLed inside setLaneState is a step of its own, so   *)
(* that the states between two pin writes are states of the model.  The    *)
(* serial peer (the host) is the environment: it puts command lines into   *)
(* the receive queue rx.                                                   *)
(***************************************************************************)
EXTENDS Integers, Sequences, FiniteSets, TLC

VARIABLES
    gpio,               \* output level of every LED pin
    pinModes,           \* direction of every LED pin
    lanes,              \* the four LaneLeds globals, by name
    serialBuffer,       \* char serialBuffer[SERIAL_BUFFER_SIZE]
    serialBufferIndex,  \* int serialBufferIndex
    rx,                 \* bytes received by the UART and not yet read
    serialOut,          \* what the sketch has printed, one entry per message
    pc,                 \* position of the sketch
    ret,                \* where the running setLaneState returns to
    callLane,           \* setLaneState's argument lane (name of the global)
    callState,          \* setLaneState's argument state
    part,               \* processCommand's local: start of the token, or NULL
    strtokSave,         \* strtok's saved position, or NULL
    consumed,           \* history: every byte Serial.read() has returned
    lineSnap,           \* history: lanes, pins and output when the newline was read
    segSnap,            \* history: the same when the current segment was taken up
    sent                \* history: the lines the host has transmitted

vars == <<gpio, pinModes, lanes, serialBuffer, serialBufferIndex, rx, serialOut,
          pc, ret, callLane, callState, part, strtokSave, consumed, lineSnap,
          segSnap, sent>>

----------------------------------------------------------------------------
(* Constants of the sketch *)

NR_PIN == 23
NY_PIN == 22
NG_PIN == 21
ER_PIN == 17
EY_PIN == 18
EG_PIN == 19
SR_PIN == 13
SY_PIN == 12
SG_PIN == 14
WR_PIN == 25
WY_PIN == 26
WG_PIN == 27

SERIAL_BUFFER_SIZE == 64

LOW == 0
HIGH == 1

NULL == -1
NUL == "NUL"
NL == "\n"
CR == "\r"

Pins == {NR_PIN, NY_PIN, NG_PIN, ER_PIN, EY_PIN, EG_PIN,
         SR_PIN, SY_PIN, SG_PIN, WR_PIN, WY_PIN, WG_PIN}

LaneNames == {"northLane", "eastLane", "southLane", "westLane"}

\* struct LaneLeds and the four globals as statically initialised
LaneLeds(r, y, g, c) == [redPin |-> r, yellowPin |-> y, greenPin |-> g, currentLed |-> c]

InitLanes ==
    [n \in LaneNames |->
        CASE n = "northLane" -> LaneLeds(NR_PIN, NY_PIN, NG_PIN, "R")
          [] n = "eastLane"  -> LaneLeds(ER_PIN, EY_PIN, EG_PIN, "R")
          [] n = "southLane" -> LaneLeds(SR_PIN, SY_PIN, SG_PIN, "R")
          [] n = "westLane"  -> LaneLeds(WR_PIN, WY_PIN, WG_PIN, "R")]

\* mutant: case 'S' calls setLaneState(westLane, ...)
LaneOfCode_SouthIsWest(c) ==
    CASE c = "N" -> "northLane"
      [] c = "E" -> "eastLane"
      [] c = "S" -> "westLane"
      [] c = "W" -> "westLane"
      [] OTHER -> "none"

\* the switch of processCommand: lane code -> global
LaneOfCode(c) ==
    CASE c = "N" -> "northLane"
      [] c = "E" -> "eastLane"
      [] c = "S" -> "southLane"
      [] c = "W" -> "westLane"
      [] OTHER -> "none"

----------------------------------------------------------------------------
(* C strings in serialBuffer *)

BufIdx == 0 .. (SERIAL_BUFFER_SIZE - 1)

\* index of the first NUL at or after i (SERIAL_BUFFER_SIZE if there is none)
StrEnd(buf, i) ==
    IF \E k \in i .. (SERIAL_BUFFER_SIZE - 1) : buf[k] = NUL
    THEN CHOOSE k \in i .. (SERIAL_BUFFER_SIZE - 1) :
            buf[k] = NUL /\ \A j \in i .. (k - 1) : buf[j] # NUL
    ELSE SERIAL_BUFFER_SIZE

\* strlen(buf + i)
StrLen(buf, i) == StrEnd(buf, i) - i

\* the characters of the C string at buf + i
CStr(buf, i) == [k \in 1 .. StrLen(buf, i) |-> buf[i + k - 1]]

\* mutant: a splitter that returns the empty token too
StrtokStart_EmptyToken(buf, from) == from

\* strtok(s, ","), s = from (first call) or the saved position (from = NULL):
\* skips leading commas, returns the start of the token or NULL, overwrites the
\* comma that ends the token with NUL and saves the position after it.
StrtokStart(buf, from) ==
    IF from = NULL THEN NULL
    ELSE LET nd == CHOOSE k \in from .. SERIAL_BUFFER_SIZE :
                      (k = SERIAL_BUFFER_SIZE \/ buf[k] # ",")
                      /\ \A j \in from .. (k - 1) : buf[j] = ","
         IN  IF nd = SERIAL_BUFFER_SIZE \/ buf[nd] = NUL THEN NULL ELSE nd

StrtokEnd(buf, tok) ==
    CHOOSE k \in tok .. SERIAL_BUFFER_SIZE :
        (k = SERIAL_BUFFER_SIZE \/ buf[k] \in {",", NUL})
        /\ \A j \in tok .. (k - 1) : buf[j] \notin {",", NUL}

Strtok(buf, from) ==
    LET tok == StrtokStart(buf, from) IN
    IF tok = NULL
    THEN [tok |-> NULL, save |-> NULL, buf |-> buf]
    ELSE LET e == StrtokEnd(buf, tok) IN
         IF e = SERIAL_BUFFER_SIZE \/ buf[e] = NUL
         THEN [tok |-> tok, save |-> NULL, buf |-> buf]
         ELSE [tok |-> tok, save |-> e + 1, buf |-> [buf EXCEPT ![e] = NUL]]

----------------------------------------------------------------------------
(* The host: the lines it may transmit *)

MaxLines == 2
MaxWraps == 2

Seg(l, s) == <<l, ":", s>>

RECURSIVE Join(_)
Join(segs) ==
    IF segs = <<>> THEN <<>>
    ELSE IF Len(segs) = 1 THEN segs[1]
    ELSE segs[1] \o <<",">> \o Join(Tail(segs))

Pad(k) == [i \in 1 .. k |-> "x"]

\* 16 directives and 15 commas: SERIAL_BUFFER_SIZE - 1 bytes
FullLine ==
    Join([i \in 1 .. 16 |->
            Seg(<<"N", "E", "S", "W">>[((i - 1) % 4) + 1],
                <<"G", "Y", "R">>[((i - 1) % 3) + 1])])

\* lines the host sends at any time
BasicLines ==
    { Join(<<Seg("N", "G")>>),
      Join(<<Seg("E", "Y")>>),
      Join(<<Seg("N", "G"), Seg("E", "R"), Seg("S", "R"), Seg("W", "R")>>),
      Join(<<Seg("S", "G"), Seg("W", "Y")>>),
      Join(<<Seg("W", "G"), Seg("N", "Y")>>) }

\* lines with one particular feature each
SpecialLines ==
    { <<>>,
      Join(<<Seg("N", "R"), Seg("N", "G")>>),
      Join(<<Seg("N", "G"), Seg("N", "G")>>),
      Join(<<Seg("W", "Y"), Seg("S", "R"), Seg("W", "Y")>>),
      Join(<<Seg("N", "G"), Seg("X", "R"), Seg("E", "Y")>>),
      Join(<<Seg("n", "G"), Seg("S", "Y")>>),
      Join(<<Seg("e", "Z")>>),
      Join(<<Seg("N", "Z")>>),
      Join(<<Seg("E", "G"), Seg("E", "O")>>),
      Join(<<Seg("S", "Y"), Seg("S", "y"), Seg("W", "G")>>),
      Join(<<Seg("W", "r")>>),
      Join(<<Seg("N", "G"), <<>>, Seg("E", "Y")>>),
      Join(<<<<>>, Seg("S", "G")>>),
      Join(<<Seg("W", "G"), <<>>>>),
      <<",", ",">>,
      Join(<<<<"N", "G">>, Seg("E", "Y")>>),
      Join(<<<<"N", ":", "G", "G">>, <<>>, Seg("S", "Y")>>),
      Join(<<Seg("W", "G"), <<"N", ";", "G">>, Seg("E", "G")>>),
      Join(<<<<"N">>, <<"E", ":">>, Seg("S", "G")>>),
      Join(<<Seg("N", "G"), Seg("E", "R")>>) \o <<CR>>,
      Seg("N", "G") \o <<NUL, ",">> \o Seg("E", "Y"),
      FullLine,
      Pad(SERIAL_BUFFER_SIZE - 1),
      Pad(SERIAL_BUFFER_SIZE),
      Pad(SERIAL_BUFFER_SIZE - 3) \o Seg("N", "G"),
      Pad(SERIAL_BUFFER_SIZE - 3) \o <<",">> \o Seg("N", "G"),
      Pad(SERIAL_BUFFER_SIZE) \o Seg("N", "G"),
      Pad(SERIAL_BUFFER_SIZE + 1),
      Pad(SERIAL_BUFFER_SIZE - 2) \o Seg("E", "Y") \o Seg("S", "G") }
    \cup { Pad(w * SERIAL_BUFFER_SIZE) \o Seg("W", "G") : w \in 2 .. MaxWraps }

Lines == BasicLines \cup SpecialLines

----------------------------------------------------------------------------
(* Initial state: the statically initialised globals, before setup().  The  *)
(* GPIO output latches are 0 after reset, and serialBuffer is zero-filled.   *)

Snapshot == [gpio |-> gpio, lanes |-> lanes, out |-> Len(serialOut),
             prev |-> <<callLane, callState>>]

Init ==
    /\ gpio = [p \in Pins |-> LOW]
    /\ pinModes = [p \in Pins |-> "INPUT"]
    /\ lanes = InitLanes
    /\ serialBuffer = [i \in BufIdx |-> NUL]
    /\ serialBufferIndex = 0
    /\ rx = <<>>
    /\ serialOut = <<>>
    /\ pc = "boot"
    /\ ret = "none"
    /\ callLane = "none"
    /\ callState = NUL
    /\ part = NULL
    /\ strtokSave = NULL
    /\ consumed = <<>>
    /\ lineSnap = [gpio |-> [p \in Pins |-> LOW], lanes |-> InitLanes, out |-> 0,
                   prev |-> <<"none", NUL>>]
    /\ segSnap = [gpio |-> [p \in Pins |-> LOW], lanes |-> InitLanes, out |-> 0,
                  prev |-> <<"none", NUL>>]
    /\ sent = <<>>

----------------------------------------------------------------------------
(* The host transmits a line and its newline; the UART queues the bytes *)

\* The host sends at most MaxLines lines, at most one of them a special one.
\* It sends a line and its newline in one piece, before setup() runs or while
\* loop() finds nothing to read: the sketch reads one byte per iteration and
\* nothing else of it looks at the queue, so when the bytes arrive does not
\* change what it does with them.
SpecialSent == \E i \in 1 .. Len(sent) : sent[i] \in SpecialLines

HostSend(l) ==
    /\ pc \in {"boot", "loop"}
    /\ rx = <<>>
    /\ Len(sent) < MaxLines
    /\ l \in SpecialLines => ~ SpecialSent
    /\ rx' = l \o <<NL>>
    /\ sent' = Append(sent, l)
    /\ UNCHANGED <<gpio, pinModes, lanes, serialBuffer, serialBufferIndex,
                   serialOut, pc, ret, callLane, callState, part, strtokSave,
                   consumed, lineSnap, segSnap>>

----------------------------------------------------------------------------
(* setup() *)

\* lines 50-69: Serial.begin, the two banner lines, the twelve pinMode calls
SetupBegin ==
    /\ pc = "boot"
    /\ serialOut' = serialOut \o <<<<"Initialized">>, <<"Waiting">>>>
    /\ pinModes' = [p \in Pins |-> "OUTPUT"]
    /\ pc' = "setup_north"
    /\ UNCHANGED <<gpio, lanes, serialBuffer, serialBufferIndex, rx, ret,
                   callLane, callState, part, strtokSave, consumed, lineSnap,
                   segSnap, sent>>

\* mutant: setup() does not set the lanes
SetupCall_Skip(at, lane, next) ==
    /\ pc = at
    /\ pc' = next
    /\ UNCHANGED <<gpio, pinModes, lanes, serialBuffer, serialBufferIndex, rx,
                   serialOut, ret, callLane, callState, part, strtokSave,
                   consumed, lineSnap, segSnap, sent>>

\* lines 72-75: setLaneState(<lane>, 'R') four times
SetupCall(at, lane, next) ==
    /\ pc = at
    /\ callLane' = lane
    /\ callState' = "R"
    /\ ret' = next
    /\ pc' = "sls_red_low"
    /\ UNCHANGED <<gpio, pinModes, lanes, serialBuffer, serialBufferIndex, rx,
                   serialOut, part, strtokSave, consumed, lineSnap, segSnap, sent>>

Setup ==
    \/ SetupBegin
    \/ SetupCall("setup_north", "northLane", "setup_east")
    \/ SetupCall("setup_east", "eastLane", "setup_south")
    \/ SetupCall("setup_south", "southLane", "setup_west")
    \/ SetupCall("setup_west", "westLane", "loop")

----------------------------------------------------------------------------
(* setLaneState(LaneLeds &lane, char state) *)

SlsFrame == <<pinModes, serialBuffer, serialBufferIndex, rx, ret, callLane,
              callState, part, strtokSave, consumed, lineSnap, segSnap, sent>>

\* digitalWrite(pin, level)
DigitalWrite(pin, level) == gpio' = [gpio EXCEPT ![pin] = level]

SlsRedLow ==
    /\ pc = "sls_red_low"
    /\ DigitalWrite(lanes[callLane].redPin, LOW)
    /\ pc' = "sls_yellow_low"
    /\ UNCHANGED <<lanes, serialOut>>
    /\ UNCHANGED SlsFrame

SlsYellowLow ==
    /\ pc = "sls_yellow_low"
    /\ DigitalWrite(lanes[callLane].yellowPin, LOW)
    /\ pc' = "sls_green_low"
    /\ UNCHANGED <<lanes, serialOut>>
    /\ UNCHANGED SlsFrame

\* mutant: the green pin is not turned off
SlsGreenLow_Skip ==
    /\ pc = "sls_green_low"
    /\ pc' = "sls_off"
    /\ UNCHANGED <<gpio, lanes, serialOut>>
    /\ UNCHANGED SlsFrame

SlsGreenLow ==
    /\ pc = "sls_green_low"
    /\ DigitalWrite(lanes[callLane].greenPin, LOW)
    /\ pc' = "sls_off"
    /\ UNCHANGED <<lanes, serialOut>>
    /\ UNCHANGED SlsFrame

\* mutant: currentLed is not set to 'O'
SlsOff_Skip ==
    /\ pc = "sls_off"
    /\ pc' = "sls_switch"
    /\ UNCHANGED <<gpio, lanes, serialOut>>
    /\ UNCHANGED SlsFrame

SlsOff ==
    /\ pc = "sls_off"
    /\ lanes' = [lanes EXCEPT ![callLane].currentLed = "O"]
    /\ pc' = "sls_switch"
    /\ UNCHANGED <<gpio, serialOut>>
    /\ UNCHANGED SlsFrame

\* the pin the switch turns on for a state
PinOfState(lane, state) ==
    CASE state = "R" -> lane.redPin
      [] state = "Y" -> lane.yellowPin
      [] state = "G" -> lane.greenPin

SlsSwitch ==
    /\ pc = "sls_switch"
    /\ \/ /\ callState \in {"R", "Y", "G"}
          /\ DigitalWrite(PinOfState(lanes[callLane], callState), HIGH)
          /\ pc' = "sls_record"
          /\ UNCHANGED <<lanes, serialOut>>
       \/ /\ callState \notin {"R", "Y", "G"}
          /\ serialOut' = Append(serialOut, <<"UnknownState", callState>>)
          /\ pc' = ret
          /\ UNCHANGED <<gpio, lanes>>
    /\ UNCHANGED SlsFrame

\* mutant: the new state is not recorded
SlsRecord_Skip ==
    /\ pc = "sls_record"
    /\ pc' = ret
    /\ UNCHANGED <<gpio, lanes, serialOut>>
    /\ UNCHANGED SlsFrame

SlsRecord ==
    /\ pc = "sls_record"
    /\ lanes' = [lanes EXCEPT ![callLane].currentLed = callState]
    /\ pc' = ret
    /\ UNCHANGED <<gpio, serialOut>>
    /\ UNCHANGED SlsFrame

SetLaneState ==
    \/ SlsRedLow
    \/ SlsYellowLow
    \/ SlsGreenLow
    \/ SlsOff
    \/ SlsSwitch
    \/ SlsRecord

----------------------------------------------------------------------------
(* loop() *)

LoopFrame == <<gpio, pinModes, lanes, ret, callLane, callState, part,
               strtokSave, segSnap, sent>>

\* Serial.available() == 0: the iteration does nothing
LoopIdle ==
    /\ pc = "loop"
    /\ rx = <<>>
    /\ UNCHANGED vars

\* mutant: the overflow branch is taken one byte early
HasRoom_OffByOne == serialBufferIndex < SERIAL_BUFFER_SIZE - 2

\* mutant: no slot is reserved for the terminator
HasRoom_NoReserve == serialBufferIndex < SERIAL_BUFFER_SIZE

\* line 86: serialBufferIndex < SERIAL_BUFFER_SIZE - 1
HasRoom == serialBufferIndex < SERIAL_BUFFER_SIZE - 1

\* mutant: the string is not terminated
LoopNewline_NoTerminator ==
    /\ pc = "loop"
    /\ rx # <<>>
    /\ Head(rx) = NL
    /\ rx' = Tail(rx)
    /\ consumed' = Append(consumed, Head(rx))
    /\ lineSnap' = Snapshot
    /\ pc' = "process_echo"
    /\ UNCHANGED <<serialBuffer, serialBufferIndex, serialOut>>
    /\ UNCHANGED LoopFrame

\* '\n': terminate the string and call processCommand(serialBuffer)
LoopNewline ==
    /\ pc = "loop"
    /\ rx # <<>>
    /\ Head(rx) = NL
    /\ rx' = Tail(rx)
    /\ consumed' = Append(consumed, Head(rx))
    /\ serialBuffer' = [serialBuffer EXCEPT ![serialBufferIndex] = NUL]
    /\ lineSnap' = Snapshot
    /\ pc' = "process_echo"
    /\ UNCHANGED <<serialBufferIndex, serialOut>>
    /\ UNCHANGED LoopFrame

\* mutant: a carriage return ends the line as a newline does
LoopAppend_CrTerminates ==
    /\ pc = "loop"
    /\ rx # <<>>
    /\ Head(rx) # NL
    /\ HasRoom
    /\ rx' = Tail(rx)
    /\ consumed' = Append(consumed, Head(rx))
    /\ IF Head(rx) = CR
       THEN /\ serialBuffer' = [serialBuffer EXCEPT ![serialBufferIndex] = NUL]
            /\ lineSnap' = Snapshot
            /\ pc' = "process_echo"
            /\ UNCHANGED serialBufferIndex
       ELSE /\ serialBuffer' = [serialBuffer EXCEPT ![serialBufferIndex] = Head(rx)]
            /\ serialBufferIndex' = serialBufferIndex + 1
            /\ UNCHANGED <<pc, lineSnap>>
    /\ UNCHANGED serialOut
    /\ UNCHANGED LoopFrame

\* mutant: a carriage return is dropped
LoopAppend_SkipCr ==
    /\ pc = "loop"
    /\ rx # <<>>
    /\ Head(rx) # NL
    /\ HasRoom
    /\ rx' = Tail(rx)
    /\ consumed' = Append(consumed, Head(rx))
    /\ IF Head(rx) = CR
       THEN UNCHANGED <<serialBuffer, serialBufferIndex>>
       ELSE /\ serialBuffer' = [serialBuffer EXCEPT ![serialBufferIndex] = Head(rx)]
            /\ serialBufferIndex' = serialBufferIndex + 1
    /\ UNCHANGED <<serialOut, pc, lineSnap>>
    /\ UNCHANGED LoopFrame

\* any other byte while there is room: append it
LoopAppend ==
    /\ pc = "loop"
    /\ rx # <<>>
    /\ Head(rx) # NL
    /\ HasRoom
    /\ rx' = Tail(rx)
    /\ consumed' = Append(consumed, Head(rx))
    /\ serialBuffer' = [serialBuffer EXCEPT ![serialBufferIndex] = Head(rx)]
    /\ serialBufferIndex' = serialBufferIndex + 1
    /\ UNCHANGED <<serialOut, pc, lineSnap>>
    /\ UNCHANGED LoopFrame

\* mutant: the byte that overflows starts the new buffer content
LoopOverflow_KeepByte ==
    /\ pc = "loop"
    /\ rx # <<>>
    /\ Head(rx) # NL
    /\ ~ HasRoom
    /\ rx' = Tail(rx)
    /\ consumed' = Append(consumed, Head(rx))
    /\ serialOut' = Append(serialOut, <<"Overflow">>)
    /\ serialBuffer' = [serialBuffer EXCEPT ![0] = Head(rx)]
    /\ serialBufferIndex' = 1
    /\ UNCHANGED <<pc, lineSnap>>
    /\ UNCHANGED LoopFrame

\* any other byte while the buffer is full: report and reset the index
LoopOverflow ==
    /\ pc = "loop"
    /\ rx # <<>>
    /\ Head(rx) # NL
    /\ ~ HasRoom
    /\ rx' = Tail(rx)
    /\ consumed' = Append(consumed, Head(rx))
    /\ serialOut' = Append(serialOut, <<"Overflow">>)
    /\ serialBufferIndex' = 0
    /\ UNCHANGED <<serialBuffer, pc, lineSnap>>
    /\ UNCHANGED LoopFrame

\* mutant: the index is not reset after a line
LoopReset_NoReset ==
    /\ pc = "loop_reset"
    /\ pc' = "loop"
    /\ UNCHANGED <<serialBuffer, serialBufferIndex, rx, serialOut, consumed, lineSnap>>
    /\ UNCHANGED LoopFrame

\* line 85, after processCommand has returned
LoopReset ==
    /\ pc = "loop_reset"
    /\ serialBufferIndex' = 0
    /\ pc' = "loop"
    /\ UNCHANGED <<serialBuffer, rx, serialOut, consumed, lineSnap>>
    /\ UNCHANGED LoopFrame

Loop ==
    \/ LoopIdle
    \/ LoopNewline
    \/ LoopAppend
    \/ LoopOverflow
    \/ LoopReset

----------------------------------------------------------------------------
(* processCommand(char* command), command = serialBuffer *)

ProcessFrame == <<pinModes, serialBufferIndex, rx, consumed, lineSnap, sent>>

\* lines 97-101: the echo, then part = strtok(command, ",")
ProcessEcho ==
    /\ pc = "process_echo"
    /\ serialOut' = Append(serialOut, <<"Received", CStr(serialBuffer, 0)>>)
    /\ LET t == Strtok(serialBuffer, 0) IN
         /\ part' = t.tok
         /\ strtokSave' = t.save
         /\ serialBuffer' = t.buf
    /\ pc' = "process_while"
    /\ UNCHANGED <<gpio, lanes, ret, callLane, callState, segSnap>>
    /\ UNCHANGED ProcessFrame

\* line 103: part == NULL ends the loop and processCommand returns
ProcessReturn ==
    /\ pc = "process_while"
    /\ part = NULL
    /\ pc' = "loop_reset"
    /\ UNCHANGED <<gpio, lanes, serialBuffer, serialOut, ret, callLane,
                   callState, part, strtokSave, segSnap>>
    /\ UNCHANGED ProcessFrame

\* line 105
WellFormed(buf, p) == StrLen(buf, p) = 3 /\ buf[p + 1] = ":"

\* lines 105-126: a well-formed part, lane code known: call setLaneState
ProcessDispatch ==
    /\ pc = "process_while"
    /\ part # NULL
    /\ WellFormed(serialBuffer, part)
    /\ LaneOfCode(serialBuffer[part]) # "none"
    /\ callLane' = LaneOfCode(serialBuffer[part])
    /\ callState' = serialBuffer[part + 2]
    /\ ret' = "process_next"
    /\ segSnap' = Snapshot
    /\ pc' = "sls_red_low"
    /\ UNCHANGED <<gpio, lanes, serialBuffer, serialOut, part, strtokSave>>
    /\ UNCHANGED ProcessFrame

\* mutant: an unknown lane code ends the parsing of the line
ProcessUnknownLane_Abort ==
    /\ pc = "process_while"
    /\ part # NULL
    /\ WellFormed(serialBuffer, part)
    /\ LaneOfCode(serialBuffer[part]) = "none"
    /\ serialOut' = Append(serialOut, <<"UnknownLane", serialBuffer[part]>>)
    /\ segSnap' = Snapshot
    /\ pc' = "loop_reset"
    /\ UNCHANGED <<gpio, lanes, serialBuffer, ret, callLane, callState, part,
                   strtokSave>>
    /\ UNCHANGED ProcessFrame

\* lines 122-125: a well-formed part, lane code unknown
ProcessUnknownLane ==
    /\ pc = "process_while"
    /\ part # NULL
    /\ WellFormed(serialBuffer, part)
    /\ LaneOfCode(serialBuffer[part]) = "none"
    /\ serialOut' = Append(serialOut, <<"UnknownLane", serialBuffer[part]>>)
    /\ segSnap' = Snapshot
    /\ pc' = "process_next"
    /\ UNCHANGED <<gpio, lanes, serialBuffer, ret, callLane, callState, part,
                   strtokSave>>
    /\ UNCHANGED ProcessFrame

\* mutant: a malformed part ends the parsing of the line
ProcessMalformed_Abort ==
    /\ pc = "process_while"
    /\ part # NULL
    /\ ~ WellFormed(serialBuffer, part)
    /\ serialOut' = Append(serialOut, <<"Malformed", CStr(serialBuffer, part)>>)
    /\ segSnap' = Snapshot
    /\ pc' = "loop_reset"
    /\ UNCHANGED <<gpio, lanes, serialBuffer, ret, callLane, callState, part,
                   strtokSave>>
    /\ UNCHANGED ProcessFrame

\* lines 127-130: a malformed part
ProcessMalformed ==
    /\ pc = "process_while"
    /\ part # NULL
    /\ ~ WellFormed(serialBuffer, part)
    /\ serialOut' = Append(serialOut, <<"Malformed", CStr(serialBuffer, part)>>)
    /\ segSnap' = Snapshot
    /\ pc' = "process_next"
    /\ UNCHANGED <<gpio, lanes, serialBuffer, ret, callLane, callState, part,
                   strtokSave>>
    /\ UNCHANGED ProcessFrame

\* mutant: strtok(command, ",") again instead of strtok(NULL, ",")
ProcessNext_Restart ==
    /\ pc = "process_next"
    /\ LET t == Strtok(serialBuffer, 0) IN
         /\ part' = t.tok
         /\ strtokSave' = t.save
         /\ serialBuffer' = t.buf
    /\ pc' = "process_while"
    /\ UNCHANGED <<gpio, lanes, serialOut, ret, callLane, callState, segSnap>>
    /\ UNCHANGED ProcessFrame

\* mutant: the loop ends after the first part
ProcessNext_Stop ==
    /\ pc = "process_next"
    /\ part' = NULL
    /\ pc' = "process_while"
    /\ UNCHANGED <<gpio, lanes, serialBuffer, serialOut, ret, callLane, callState,
                   strtokSave, segSnap>>
    /\ UNCHANGED ProcessFrame

\* line 131: part = strtok(NULL, ",")
ProcessNext ==
    /\ pc = "process_next"
    /\ LET t == Strtok(serialBuffer, strtokSave) IN
         /\ part' = t.tok
         /\ strtokSave' = t.save
         /\ serialBuffer' = t.buf
    /\ pc' = "process_while"
    /\ UNCHANGED <<gpio, lanes, serialOut, ret, callLane, callState, segSnap>>
    /\ UNCHANGED ProcessFrame

ProcessCommand ==
    \/ ProcessEcho
    \/ ProcessReturn
    \/ ProcessDispatch
    \/ ProcessUnknownLane
    \/ ProcessMalformed
    \/ ProcessNext

----------------------------------------------------------------------------

Next ==
    \/ \E l \in Lines : HostSend(l)
    \/ Setup
    \/ SetLaneState
    \/ Loop
    \/ ProcessCommand

Spec == Init /\ [][Next]_vars

\* A step of the sketch itself: everything but the host, and but the iteration
\* of loop() that finds nothing to read.
SketchStep ==
    \/ Setup
    \/ SetLaneState
    \/ LoopNewline
    \/ LoopAppend
    \/ LoopOverflow
    \/ LoopReset
    \/ ProcessCommand

\* The processor keeps running: setup() and then loop() for ever, so a step of
\* the sketch that can be taken is taken.  Nothing is assumed of the host.
FairSpec == Spec /\ WF_vars(SketchStep)

----------------------------------------------------------------------------
(* What the history variables say about the line in hand *)

\* the last byte read was a newline: its line is being parsed, or has been
Terminated == consumed # <<>> /\ consumed[Len(consumed)] = NL

\* position in consumed of the last newline before position i (0: none)
NlBefore(i) ==
    LET nls == {j \in 1 .. (i - 1) : consumed[j] = NL}
    IN  IF nls = {} THEN 0 ELSE CHOOSE j \in nls : \A k \in nls : k <= j

\* end of the payload of the line in hand
CurEnd == IF Terminated THEN Len(consumed) - 1 ELSE Len(consumed)

\* the payload bytes of the line in hand: those read since the newline before it
CurLine == SubSeq(consumed, NlBefore(CurEnd + 1) + 1, CurEnd)

\* number of payload bytes of the line before the line in hand (-1: there is none)
PrevLen ==
    LET b == NlBefore(CurEnd + 1)
    IN  IF b = 0 THEN -1 ELSE b - 1 - NlBefore(b)

\* the sketch is inside setup(), or has not started it
InSetup ==
    \/ pc \in {"boot", "setup_north", "setup_east", "setup_south", "setup_west"}
    \/ pc \notin {"loop", "loop_reset", "process_echo", "process_while", "process_next"}
       /\ ret # "process_next"

\* inside a setLaneState that processCommand called
InApply ==
    /\ pc \in {"sls_red_low", "sls_yellow_low", "sls_green_low", "sls_off",
               "sls_switch", "sls_record"}
    /\ ret = "process_next"

\* a line has been parsed and the buffer reset, and no byte read since
LineDone == pc = "loop" /\ Terminated

\* the string processCommand was given, as its echo printed it
Handed == serialOut[lineSnap.out + 1][2]

\* messages of one kind printed since the newline was read
DiagsOf(kind) ==
    Cardinality({i \in (lineSnap.out + 1) .. Len(serialOut) : serialOut[i][1] = kind})

\* what a lane shows: the recorded state and the three pins
PinsShow(g, l, s) ==
    /\ g[l.redPin] = (IF s = "R" THEN HIGH ELSE LOW)
    /\ g[l.yellowPin] = (IF s = "Y" THEN HIGH ELSE LOW)
    /\ g[l.greenPin] = (IF s = "G" THEN HIGH ELSE LOW)

LaneShows(n, s) == lanes[n].currentLed = s /\ PinsShow(gpio, lanes[n], s)

\* a lane is as it was in a snapshot
LaneAsIn(snap, n) ==
    /\ lanes[n] = snap.lanes[n]
    /\ \A p \in {lanes[n].redPin, lanes[n].yellowPin, lanes[n].greenPin} :
          gpio[p] = snap.gpio[p]

----------------------------------------------------------------------------
(* The wire format of the specification, section 6 *)

GrammarLane(c) ==
    IF c = "N" THEN "northLane"
    ELSE IF c = "E" THEN "eastLane"
    ELSE IF c = "S" THEN "southLane"
    ELSE IF c = "W" THEN "westLane"
    ELSE "none"

GrammarStates == {"R", "Y", "G"}

\* the fields of a line between its commas (k commas: k + 1 fields)
RECURSIVE Fields(_)
Fields(s) ==
    IF \A i \in 1 .. Len(s) : s[i] # ","
    THEN <<s>>
    ELSE LET i == CHOOSE i \in 1 .. Len(s) :
                      s[i] = "," /\ \A j \in 1 .. (i - 1) : s[j] # ","
         IN  <<SubSeq(s, 1, i - 1)>> \o Fields(SubSeq(s, i + 1, Len(s)))

\* the comma-separated segments of a line; the empty line has none
Segments(s) == IF s = <<>> THEN <<>> ELSE Fields(s)

SegWellFormed(seg) == Len(seg) = 3 /\ seg[2] = ":"
SegDirective(seg) == SegWellFormed(seg) /\ GrammarLane(seg[1]) # "none"
SegUnknownLane(seg) == SegWellFormed(seg) /\ GrammarLane(seg[1]) = "none"
SegValid(seg) == SegDirective(seg) /\ seg[3] \in GrammarStates

GrammarValid(s) ==
    /\ s # <<>>
    /\ Len(s) <= SERIAL_BUFFER_SIZE - 1
    /\ \A i \in 1 .. Len(Segments(s)) : SegValid(Segments(s)[i])

CountSegs(segs, P(_)) == Cardinality({i \in 1 .. Len(segs) : P(segs[i])})

\* the lamp states (lane -> R, Y, G or O) a sequence of segments asks for,
\* starting from lamp and taking the segments from left to right
RECURSIVE Requested(_, _)
Requested(lamp, segs) ==
    IF segs = <<>> THEN lamp
    ELSE LET seg == Head(segs)
             nxt == IF SegDirective(seg)
                    THEN [lamp EXCEPT ![GrammarLane(seg[1])] =
                             IF seg[3] \in GrammarStates THEN seg[3] ELSE "O"]
                    ELSE lamp
         IN  Requested(nxt, Tail(segs))

\* the recorded lamp states of a snapshot
LampOf(snap) == [n \in LaneNames |-> snap.lanes[n].currentLed]

\* the lanes a sequence of segments names
Named(segs) == {GrammarLane(segs[i][1]) : i \in {j \in 1 .. Len(segs) : SegDirective(segs[j])}}

\* the token processCommand is working on, or has just handled
Token == CStr(serialBuffer, part)

----------------------------------------------------------------------------
(* Claims *)

HighPins(n) ==
    {p \in {lanes[n].redPin, lanes[n].yellowPin, lanes[n].greenPin} : gpio[p] = HIGH}

\* C1: in every state, between the pin writes of setLaneState and before and
\* during setup() included, each lane has at most one of its three pins HIGH.
C1_AtMostOneHigh == \A n \in LaneNames : Cardinality(HighPins(n)) <= 1

\* a lane that was green is being switched: its red pin has been written LOW
\* and its green pin is still HIGH
C1_Witness ==
    /\ pc = "sls_yellow_low"
    /\ ret = "process_next"
    /\ callState = "R"
    /\ gpio[lanes[callLane].greenPin] = HIGH

\* C2: a line of more than 63 payload bytes is dropped as a whole: its newline
\* parses none of its bytes, so no lane's pins or recorded state change while
\* or after it is processed.
C2_OverlongLineDropped ==
    (Terminated /\ Len(CurLine) > SERIAL_BUFFER_SIZE - 1)
        => (gpio = lineSnap.gpio /\ lanes = lineSnap.lanes)

\* C3: after a line of 64 or more payload bytes and its newline, a
\* grammar-valid line L of at most 63 bytes is parsed as on a fresh
\* accumulator: processCommand is handed exactly L, and every lane ends in the
\* state L requests.
C3_OverflowRecovery ==
    (LineDone /\ PrevLen >= SERIAL_BUFFER_SIZE /\ GrammarValid(CurLine))
        => /\ Handed = CurLine
           /\ \A n \in LaneNames :
                 LaneShows(n, Requested(LampOf(lineSnap), Segments(CurLine))[n])

C3_Witness ==
    /\ LineDone
    /\ PrevLen > SERIAL_BUFFER_SIZE
    /\ GrammarValid(CurLine)
    /\ lanes # lineSnap.lanes

\* C4: in a grammar-valid line, when a segment (L, s) is applied, lane L ends
\* with exactly the pin of s HIGH and currentLed = s, the three other lanes
\* are untouched by that segment (at every step of it), and the lanes the line
\* does not name are after the line as they were before it.
C4_ValidSegmentApplied ==
    (Terminated /\ GrammarValid(CurLine))
        => /\ pc = "process_next"
                => /\ Token \in {Segments(CurLine)[i] : i \in 1 .. Len(Segments(CurLine))}
                   /\ callLane = GrammarLane(Token[1])
                   /\ callState = Token[3]
                   /\ LaneShows(callLane, callState)
           /\ (pc = "process_next" \/ InApply)
                => \A n \in LaneNames \ {callLane} : LaneAsIn(segSnap, n)
           /\ LineDone
                => \A n \in LaneNames \ Named(Segments(CurLine)) : LaneAsIn(lineSnap, n)

\* a segment that changed its lane has been applied while another lane was
\* not red
C4_Witness ==
    /\ Terminated
    /\ GrammarValid(CurLine)
    /\ pc = "process_next"
    /\ lanes[callLane] # segSnap.lanes[callLane]
    /\ \E n \in LaneNames \ {callLane} : lanes[n].currentLed # "R"

\* the segments of the handed line that processCommand has handled so far
HandledSegs ==
    IF pc = "process_while" /\ part # NULL
    THEN Segments(SubSeq(Handed, 1, part))
    ELSE Segments(Handed)

\* C5: the directives of a line are applied one at a time from left to right:
\* whenever processCommand is between two segments, and when the line is done,
\* every lane shows what the segments handled so far request, a later segment
\* for a lane overriding an earlier one (N:R,N:G: red in between, then green).
C5_LeftToRightLastWins ==
    (Terminated /\ pc \in {"process_while", "loop_reset", "loop"})
        => \A n \in LaneNames :
              LaneShows(n, Requested(LampOf(lineSnap), HandledSegs)[n])

\* N:R,N:G with lane N green before the line: N is red between the two segments
C5_Witness ==
    /\ Terminated
    /\ CurLine = Join(<<Seg("N", "R"), Seg("N", "G")>>)
    /\ lineSnap.lanes["northLane"].currentLed = "G"
    /\ pc = "process_while"
    /\ part = 4
    /\ LaneShows("northLane", "R")

\* C6: a 3-character segment c:s whose lane code is not N, E, S or W changes
\* no lane and prints exactly one diagnostic, and parsing goes on: when the
\* line is done there is one unknown-lane diagnostic per such segment and
\* every lane shows what the line's other segments request.
C6_UnknownLaneIsolated ==
    /\ (Terminated /\ pc = "process_next" /\ SegUnknownLane(Token))
          => /\ gpio = segSnap.gpio
             /\ lanes = segSnap.lanes
             /\ serialOut = Append(SubSeq(serialOut, 1, segSnap.out),
                                   <<"UnknownLane", Token[1]>>)
    /\ (LineDone /\ CountSegs(Segments(Handed), SegUnknownLane) > 0)
          => /\ DiagsOf("UnknownLane") = CountSegs(Segments(Handed), SegUnknownLane)
             /\ \A n \in LaneNames :
                   LaneShows(n, Requested(LampOf(lineSnap), Segments(Handed))[n])

\* N:G,X:R,E:Y is done: N green, E yellow, the echo and one diagnostic printed
C6_Witness ==
    /\ LineDone
    /\ CurLine = Join(<<Seg("N", "G"), Seg("X", "R"), Seg("E", "Y")>>)
    /\ LaneShows("northLane", "G")
    /\ LaneShows("eastLane", "Y")
    /\ LaneAsIn(lineSnap, "southLane")
    /\ LaneAsIn(lineSnap, "westLane")
    /\ lineSnap.lanes["eastLane"].currentLed = "R"
    /\ Len(serialOut) = lineSnap.out + 2

SegMalformed(seg) == ~ SegWellFormed(seg)
SegMalformedNonEmpty(seg) == seg # <<>> /\ ~ SegWellFormed(seg)

\* C7 as stated: every comma-separated segment that is not 3 characters with
\* ':' second, an empty segment (leading, trailing or doubled comma) included,
\* is reported with one diagnostic.
C7_EverySegmentReported ==
    LineDone => DiagsOf("Malformed") = CountSegs(Segments(Handed), SegMalformed)

\* C7 as amended: every non-empty segment that is not 3 characters with ':'
\* second is reported with exactly one diagnostic and changes no lane; an
\* empty segment is skipped without a diagnostic; neither stops the parsing
\* of the rest of the line.
C7_NonEmptyMalformedReported ==
    /\ (Terminated /\ pc = "process_next" /\ ~ SegWellFormed(Token))
          => /\ Token # <<>>
             /\ gpio = segSnap.gpio
             /\ lanes = segSnap.lanes
             /\ serialOut = Append(SubSeq(serialOut, 1, segSnap.out),
                                   <<"Malformed", Token>>)
    /\ LineDone
          => /\ DiagsOf("Malformed") = CountSegs(Segments(Handed), SegMalformedNonEmpty)
             /\ CountSegs(Segments(Handed), SegMalformed) > 0
                   => \A n \in LaneNames :
                         LaneShows(n, Requested(LampOf(lineSnap), Segments(Handed))[n])

\* N:GG,,S:Y is done: one diagnostic (for N:GG, none for the empty segment)
\* and lane S yellow
C7_Witness ==
    /\ LineDone
    /\ CurLine = Join(<<<<"N", ":", "G", "G">>, <<>>, Seg("S", "Y")>>)
    /\ DiagsOf("Malformed") = 1
    /\ Len(serialOut) = lineSnap.out + 2
    /\ lineSnap.lanes["southLane"].currentLed # "Y"
    /\ LaneShows("southLane", "Y")

\* C8: a well-formed segment L:c with L a lane and c not R, Y or G leaves lane
\* L with its three pins LOW and currentLed = 'O', prints exactly one
\* diagnostic, and changes no other lane, whatever lane L showed before.
C8_UnknownStateOff ==
    (Terminated /\ pc = "process_next" /\ SegDirective(Token)
                /\ Token[3] \notin GrammarStates)
        => /\ callLane = GrammarLane(Token[1])
           /\ LaneShows(callLane, "O")
           /\ HighPins(callLane) = {}
           /\ serialOut = Append(SubSeq(serialOut, 1, segSnap.out),
                                 <<"UnknownState", Token[3]>>)
           /\ \A n \in LaneNames \ {callLane} : LaneAsIn(segSnap, n)

\* a lane that was green has been turned off by a segment with state O
C8_Witness ==
    /\ Terminated
    /\ pc = "process_next"
    /\ Token = Seg("E", "O")
    /\ segSnap.lanes["eastLane"].currentLed = "G"
    /\ LaneShows("eastLane", "O")

\* C9: when setup() has finished and loop() has read no byte, every lane has
\* its red pin HIGH, its other pins LOW and currentLed = 'R', and the line
\* buffer is empty; no byte is read before setup() has finished.
C9_StartupAllRed ==
    /\ InSetup => consumed = <<>>
    /\ (pc = "loop" /\ consumed = <<>>)
          => /\ \A n \in LaneNames : LaneShows(n, "R")
             /\ serialBufferIndex = 0

\* setup() has finished with a line waiting in the receive queue, unread
C9_Witness ==
    /\ pc = "loop"
    /\ consumed = <<>>
    /\ rx # <<>>
    /\ \A n \in LaneNames : LaneShows(n, "R")

\* C10: when a directive (L, s), s in R, Y, G, is applied twice in succession,
\* lane L shows s after the second application as after the first, and at no
\* point of the second application does it show or record anything but s.
C10_IdempotentNoFlicker ==
    ((InApply \/ (pc = "process_next" /\ SegDirective(Token)))
        /\ callState \in GrammarStates
        /\ segSnap.prev = <<callLane, callState>>)
        => LaneShows(callLane, callState)

\* a occurs in b as a run of consecutive bytes
IsSubstring(a, b) ==
    \E o \in 0 .. (Len(b) - Len(a)) : SubSeq(b, o + 1, o + Len(a)) = a

\* the first k bytes of serialBuffer
BufPrefix(k) == [i \in 1 .. k |-> serialBuffer[i - 1]]

\* the last k bytes of a sequence
LastBytes(s, k) == SubSeq(s, Len(s) - k + 1, Len(s))

\* overflow messages printed for the line in hand: those since the echo of
\* the line before it (and before its own echo)
OverflowsOfLine ==
    LET hi == IF Terminated THEN lineSnap.out ELSE Len(serialOut)
        echoes == {i \in 1 .. hi : serialOut[i][1] = "Received"}
        lo == IF echoes = {} THEN 0 ELSE CHOOSE i \in echoes : \A j \in echoes : j <= i
    IN  Cardinality({i \in (lo + 1) .. hi : serialOut[i][1] = "Overflow"})

\* C11: a newline received while the buffer holds zero bytes hands the empty
\* string to processCommand, which applies no directive, changes no lane and
\* prints only the echo; the buffer is empty afterwards.
C11_EmptyLineNoOp ==
    /\ (Terminated /\ pc # "loop" /\ serialBufferIndex = 0)
          => /\ pc \in {"process_echo", "process_while", "loop_reset"}
             /\ serialBuffer[0] = NUL
             /\ gpio = lineSnap.gpio
             /\ lanes = lineSnap.lanes
             /\ pc # "process_echo"
                   => /\ part = NULL
                      /\ serialOut = Append(SubSeq(serialOut, 1, lineSnap.out),
                                            <<"Received", <<>>>>)
    /\ (LineDone /\ Handed = <<>>)
          => /\ gpio = lineSnap.gpio
             /\ lanes = lineSnap.lanes
             /\ Len(serialOut) = lineSnap.out + 1
             /\ serialBufferIndex = 0

\* an empty line is done after a line that changed a lane
C11_Witness ==
    /\ LineDone
    /\ CurLine = <<>>
    /\ PrevLen > 0
    /\ Handed = <<>>
    /\ \E n \in LaneNames : lanes[n].currentLed # "R"
    /\ Len(serialOut) = lineSnap.out + 1

\* C12: the pins and currentLed of the lanes change only in setup() and while
\* a newline is being processed: reading any other byte (appended or
\* overflowing), an iteration with nothing to read, and the arrival of bytes
\* leave them unchanged.
C12_LanesChangeOnlyOnNewline ==
    [][(gpio' # gpio \/ lanes' # lanes) => (InSetup \/ (Terminated /\ InApply))]_vars

\* 64 bytes and then N:G have been read and no newline: N:G is in the buffer,
\* lane N is still red
C12_Witness ==
    /\ pc = "loop"
    /\ ~ Terminated
    /\ CurLine = Pad(SERIAL_BUFFER_SIZE) \o Seg("N", "G")
    /\ BufPrefix(3) = Seg("N", "G")
    /\ serialBufferIndex = 3
    /\ LaneShows("northLane", "R")

\* C13: after every newline has been processed serialBufferIndex = 0, whatever
\* the line was, and no byte of an earlier line is part of a later parsed
\* line: the string handed to processCommand and every token taken from it
\* are runs of bytes of the line in hand.
C13_BufferEmptyAfterLine ==
    /\ LineDone => serialBufferIndex = 0
    /\ (Terminated /\ pc # "process_echo") => IsSubstring(Handed, CurLine)
    /\ (Terminated /\ (pc \in {"process_while", "process_next"} \/ InApply)
                   /\ part # NULL)
          => IsSubstring(Token, CurLine)

\* a line shorter than the line before it is done, and bytes of the earlier
\* line are still in serialBuffer behind its terminator
C13_Witness ==
    /\ LineDone
    /\ CurLine # <<>>
    /\ Handed = CurLine
    /\ PrevLen > Len(CurLine) + 1
    /\ serialBuffer[Len(CurLine)] = NUL
    /\ serialBuffer[Len(CurLine) + 1] # NUL

\* C14: the capacity is exactly 63 payload bytes: up to 63 bytes of a line are
\* all appended and no overflow is reported, a line of exactly 63 bytes is
\* parsed whole at its newline, and the 64th byte is not appended, is reported
\* as overflow and resets the index.
C14_CapacityBoundary ==
    /\ (pc = "loop" /\ ~ Terminated /\ Len(CurLine) <= SERIAL_BUFFER_SIZE - 1)
          => /\ serialBufferIndex = Len(CurLine)
             /\ BufPrefix(Len(CurLine)) = CurLine
             /\ OverflowsOfLine = 0
    /\ (pc = "loop" /\ ~ Terminated /\ Len(CurLine) = SERIAL_BUFFER_SIZE)
          => /\ serialBufferIndex = 0
             /\ OverflowsOfLine = 1
             /\ serialOut[Len(serialOut)] = <<"Overflow">>
             /\ BufPrefix(SERIAL_BUFFER_SIZE - 1) = SubSeq(CurLine, 1, SERIAL_BUFFER_SIZE - 1)
    /\ (LineDone /\ Len(CurLine) = SERIAL_BUFFER_SIZE - 1)
          => /\ OverflowsOfLine = 0
             /\ Handed = CurLine
             /\ DiagsOf("Malformed") = CountSegs(Segments(CurLine), SegMalformedNonEmpty)
             /\ \A n \in LaneNames :
                   LaneShows(n, Requested(LampOf(lineSnap), Segments(CurLine))[n])

\* the line of 16 directives and 15 commas is done: only its echo was printed
\* and the lanes show its last four directives
C14_Witness ==
    /\ LineDone
    /\ CurLine = FullLine
    /\ Len(CurLine) = SERIAL_BUFFER_SIZE - 1
    /\ Handed = FullLine
    /\ Len(serialOut) = lineSnap.out + 1
    /\ LaneShows("northLane", "G")
    /\ LaneShows("eastLane", "Y")
    /\ LaneShows("southLane", "R")
    /\ LaneShows("westLane", "G")

\* C15: between two iterations of loop(), whatever has been received, every
\* lane's currentLed is one of R, Y, G, O and agrees with its pins: exactly
\* the pin of that state HIGH, or all three LOW for O.
C15_RecordedAgreesWithPins ==
    pc = "loop"
        => \A n \in LaneNames :
              /\ lanes[n].currentLed \in {"R", "Y", "G", "O"}
              /\ \A s \in {"R", "Y", "G", "O"} :
                    lanes[n].currentLed = s <=> PinsShow(gpio, lanes[n], s)

\* two lines, one of them with an unknown state, have been processed: one
\* lane is off, another green
C15_Witness ==
    /\ pc = "loop"
    /\ \E n \in LaneNames : lanes[n].currentLed = "O" /\ HighPins(n) = {}
    /\ \E n \in LaneNames : lanes[n].currentLed = "G"
    /\ Len(sent) = 2

NulFree(s) == \A i \in 1 .. Len(s) : s[i] # NUL

\* every lane shows what the segments of the line in hand request
LineApplied ==
    \A n \in LaneNames :
        LaneShows(n, Requested(LampOf(lineSnap), Segments(CurLine))[n])

\* C16 as stated, its last part: every newline-terminated line of at most 63
\* payload bytes, in any input stream, has been parsed whole and all its
\* directives applied when processCommand has returned.
C16_EveryShortLineApplied ==
    (LineDone /\ Len(CurLine) <= SERIAL_BUFFER_SIZE - 1) => LineApplied

\* C16 as amended: under weak fairness of the sketch's steps no input halts
\* the loop: loop() is reached again and again, every available byte is
\* eventually read, processCommand returns for every line, each strtok call
\* moving on to a later token; bytes are read only between lines, and every
\* NUL-free line of at most 63 payload bytes has been handed over whole and
\* all its directives applied before the next byte is read.
C16_LoopNeverHalts ==
    /\ []<>(pc = "loop")
    /\ (rx # <<>>) ~> (rx = <<>>)
    /\ (pc = "process_echo") ~> LineDone
    /\ [][(pc = "process_next" /\ part' # NULL) => part' > part]_vars
    /\ [][consumed' # consumed
            => (pc = "loop" /\ pc' \in {"loop", "process_echo"})]_vars
    /\ []((LineDone /\ Len(CurLine) <= SERIAL_BUFFER_SIZE - 1 /\ NulFree(CurLine))
            => (Handed = CurLine /\ LineApplied))

\* two lines have been sent and read, and the second, of several segments,
\* has been applied
C16_Witness ==
    /\ LineDone
    /\ rx = <<>>
    /\ Len(sent) = 2
    /\ Len(consumed) = Len(sent[1]) + Len(sent[2]) + 2
    /\ NulFree(CurLine)
    /\ Len(Segments(CurLine)) > 2
    /\ lanes # lineSnap.lanes
    /\ LineApplied

\* C17: in every state 0 <= serialBufferIndex <= 63 and serialBuffer keeps its
\* 64 cells; a loop step that stores a byte or the terminator stores it at
\* serialBufferIndex, an index in 0..63, and changes no other cell.
C17_BufferBounds ==
    /\ [](serialBufferIndex \in 0 .. (SERIAL_BUFFER_SIZE - 1))
    /\ [](DOMAIN serialBuffer = BufIdx)
    /\ [][(pc = "loop" /\ consumed' # consumed /\ serialOut' = serialOut)
             => /\ serialBufferIndex \in BufIdx
                /\ serialBuffer'[serialBufferIndex] =
                      (IF Head(rx) = NL THEN NUL ELSE Head(rx))
                /\ \A i \in BufIdx \ {serialBufferIndex} :
                      serialBuffer'[i] = serialBuffer[i]]_vars

\* the newline of a 63-byte line has been read: the terminator is in the last
\* cell of serialBuffer
C17_Witness ==
    /\ pc = "process_echo"
    /\ Len(CurLine) = SERIAL_BUFFER_SIZE - 1
    /\ serialBufferIndex = SERIAL_BUFFER_SIZE - 1
    /\ serialBuffer[SERIAL_BUFFER_SIZE - 1] = NUL
    /\ serialBuffer[SERIAL_BUFFER_SIZE - 2] # NUL

\* C18: after n bytes other than newline since the last newline (or since
\* startup) serialBufferIndex = n mod 64, floor(n / 64) overflow messages have
\* been printed for the line, and the buffer holds the last n mod 64 bytes
\* received; a newline terminates exactly these bytes and hands them to
\* processCommand, whose echo prints them when none of them is a 0 byte.
C18_WrapsWithPeriod64 ==
    LET n == Len(CurLine)
        k == n % SERIAL_BUFFER_SIZE
    IN  /\ (pc = "loop" /\ ~ Terminated)
              => /\ serialBufferIndex = k
                 /\ OverflowsOfLine = n \div SERIAL_BUFFER_SIZE
                 /\ BufPrefix(k) = LastBytes(CurLine, k)
        /\ pc = "process_echo"
              => /\ serialBufferIndex = k
                 /\ OverflowsOfLine = n \div SERIAL_BUFFER_SIZE
                 /\ BufPrefix(k) = LastBytes(CurLine, k)
                 /\ serialBuffer[k] = NUL
        /\ (Terminated /\ pc # "process_echo" /\ NulFree(LastBytes(CurLine, k)))
              => Handed = LastBytes(CurLine, k)

\* a line of 128 bytes and then W:G is done: two overflow messages, W:G was
\* handed to processCommand and lane W is green
C18_Witness ==
    /\ LineDone
    /\ Len(CurLine) = 2 * SERIAL_BUFFER_SIZE + 3
    /\ OverflowsOfLine = 2
    /\ Handed = Seg("W", "G")
    /\ lineSnap.lanes["westLane"].currentLed = "R"
    /\ LaneShows("westLane", "G")

\* the last segment of a line
LastSeg(s) == Segments(s)[Len(Segments(s))]

====
